---------------------------- MODULE Spec2Model ----------------------------
(***************************************************************************)
(* Model of issn_daily_pipeline.py: the daily ISSN metadata pipeline.      *)
(*                                                                         *)
(* Python values are tagged tuples, so that None and the string "None",    *)
(* or True and the string "True", are different values whose str() may     *)
(* nevertheless coincide.  SHA-256 is taken as injective: the fingerprint  *)
(* of a row is the string that generate_hash feeds to the digest.          *)
(***************************************************************************)
EXTENDS Integers, Sequences, FiniteSets, TLC

(***************************************************************************)
(* Bounds of the model.                                                    *)
(***************************************************************************)
MaxLen == 3          \* longest master list
MaxDay == 2          \* last calendar day the clock reaches
MaxRuns == 2         \* invocations of run_pipeline in one behaviour
MaxChanges == 1      \* changes of an upstream answer in one behaviour
MaxSize == 4         \* largest chunk size tried on chunk_list alone

\* BATCH_SIZE = 100 in the source; scaled down so that a list of MaxLen
\* identifiers spans several batches, the last one partial.
BATCH_SIZE == 2

Workers == {1, 2}
ISSNS == {"0028-0836", "9999-9999"}

(***************************************************************************)
(* State.                                                                  *)
(***************************************************************************)
VARIABLES
    master,      \* table issn_master: the identifiers, in the order selected
    upstream,    \* what each service answers for each identifier just now
    clock,       \* the calendar day date.today() returns
    fact,        \* table issn_metadata_fact: the committed rows, oldest first
    pending,     \* per connection: rows inserted and not yet committed
    run,         \* per worker: the locals of its run_pipeline invocation
    runs,        \* invocations started so far
    changes,     \* upstream answers changed so far
    arg_lst, arg_size, chunks,  \* chunk_list on its own: arguments and result
    rowA, rowB, hashA, hashB    \* generate_hash on its own: two rows, two results

vars ==
    <<master, upstream, clock, fact, pending, run, runs, changes,
      arg_lst, arg_size, chunks, rowA, rowB, hashA, hashB>>

pipelineVars == <<master, upstream, clock, fact, pending, run, runs, changes>>
chunkVars == <<arg_lst, arg_size, chunks>>
hashVars == <<rowA, rowB, hashA, hashB>>

\* the elements of a sequence
Range(s) == {s[i] : i \in 1..Len(s)}

(***************************************************************************)
(* Python / JSON values.                                                   *)
(***************************************************************************)
\* A value is <<type>> or <<type, payload>>.
None == <<"NoneType">>
PyStr(s) == <<"str", s>>
PyBool(b) == <<"bool", b>>
PyList(s) == <<"list", s>>
\* a dict is its items in insertion order: a sequence of <<key, value>>
PyDict(items) == <<"dict", items>>
PyDate(d) == <<"date", d>>
\* a body r.json() cannot decode
NotJson == <<"invalid">>

TypeOf(x) == x[1]
Payload(x) == x[2]

\* bool(x), as `if crossref` and `and r.json()["results"]` evaluate it
Truthy(x) ==
    CASE TypeOf(x) = "NoneType" -> FALSE
      [] TypeOf(x) = "bool" -> Payload(x)
      [] TypeOf(x) = "str" -> Payload(x) # ""
      [] TypeOf(x) = "list" -> Payload(x) # <<>>
      [] TypeOf(x) = "dict" -> Payload(x) # <<>>
      [] OTHER -> TRUE

\* k in d, for a dict d
HasKey(d, k) == \E i \in 1..Len(Payload(d)) : Payload(d)[i][1] = k

\* d.get(k, default)
DictGet(d, k, default) ==
    IF HasKey(d, k)
    THEN LET item == CHOOSE it \in Range(Payload(d)) : it[1] = k IN item[2]
    ELSE default

\* date.isoformat(): the days of the model are 2024-01-01, 2024-01-02, ...
Digit(n) == <<"0", "1", "2", "3", "4", "5", "6", "7", "8", "9">>[n + 1]

IsoFormat(d) == "2024-01-" \o Digit(d \div 10) \o Digit(d % 10)

RECURSIVE JoinStrings(_, _)
\* sep.join(strs) for a sequence of strings
JoinStrings(sep, strs) ==
    IF strs = <<>> THEN ""
    ELSE IF Len(strs) = 1 THEN strs[1]
    ELSE strs[1] \o sep \o JoinStrings(sep, Tail(strs))

\* str(v) for the values a row holds
Str(x) ==
    CASE TypeOf(x) = "NoneType" -> "None"
      [] TypeOf(x) = "str" -> Payload(x)
      [] TypeOf(x) = "bool" -> IF Payload(x) THEN "True" ELSE "False"
      [] TypeOf(x) = "date" -> IsoFormat(Payload(x))


(***************************************************************************)
(* Utilities.                                                              *)
(***************************************************************************)
\* Faulty variant of chunk_list: the step of the range is one too large, so
\* the element after each chunk is skipped.
chunk_list_skips(lst, size) ==
    [k \in 1..((Len(lst) + size) \div (size + 1)) |->
        SubSeq(lst, (k - 1) * (size + 1) + 1,
               IF (k - 1) * (size + 1) + size < Len(lst)
               THEN (k - 1) * (size + 1) + size ELSE Len(lst))]

\* list(chunk_list(lst, size)): lst[i:i + size] for i in range(0, len(lst), size)
chunk_list(lst, size) ==
    [k \in 1..((Len(lst) + size - 1) \div size) |->
        SubSeq(lst, (k - 1) * size + 1,
               IF k * size < Len(lst) THEN k * size ELSE Len(lst))]

\* the columns of a row, in the insertion order of the dict literal
FIELDS ==
    <<"issn", "journal_title", "publisher", "subjects", "country",
      "open_access", "doi_prefix", "source", "fetch_date">>

\* Faulty variant of generate_hash: a digest seeded per process, as the
\* built-in hash() is, so that it differs from one invocation to the next.
generate_hash_seeded(row) ==
    JoinStrings("|", [i \in 1..Len(FIELDS) |-> Str(row[FIELDS[i]])])
        \o "#" \o Digit(runs)

\* "|".join([str(v) for v in row.values()]), digested by an injective hash
generate_hash(row) ==
    JoinStrings("|", [i \in 1..Len(FIELDS) |-> Str(row[FIELDS[i]])])

(***************************************************************************)
(* API calls.  A response is a transport exception (timeout, connection    *)
(* error) or an HTTP response with a status and a body.                    *)
(***************************************************************************)
Raised == [kind |-> "exception"]
Http(status, body) == [kind |-> "http", status |-> status, json |-> body]

\* fetch_crossref: the "message" of a 200 response, None on anything else
fetch_crossref(resp) ==
    IF resp.kind = "http" /\ resp.status = 200
         /\ TypeOf(resp.json) = "dict" /\ HasKey(resp.json, "message")
    THEN DictGet(resp.json, "message", None)
    ELSE None

\* fetch_openalex: the first of the "results" of a 200 response, None on
\* anything else: an empty or null "results", and a truthy one that [0] does
\* not index (a dict: KeyError; a boolean: TypeError), the exception caught.
\* (A "results" that is a string is not among the bodies of the model.)
fetch_openalex(resp) ==
    IF resp.kind = "http" /\ resp.status = 200
         /\ TypeOf(resp.json) = "dict" /\ HasKey(resp.json, "results")
         /\ Truthy(DictGet(resp.json, "results", None))
         /\ TypeOf(DictGet(resp.json, "results", None)) = "list"
    THEN Payload(DictGet(resp.json, "results", None))[1]
    ELSE None

(***************************************************************************)
(* The row of one identifier (run_pipeline, the dict literal).  Building   *)
(* it raises when a fetched value has not the shape the code assumes.      *)
(***************************************************************************)
\* x.get(...) on a truthy x raises AttributeError unless x is a dict
GetRaises(x) == Truthy(x) /\ TypeOf(x) # "dict"

\* ", ".join(crossref.get("subjects", [])) raises TypeError when the value
\* is no iterable (null, a boolean) or a list with an element that is no
\* string.  (A "subjects" that is itself a string or a dict is not among the
\* bodies of the model.)
SubjectsRaises(crossref) ==
    LET s == DictGet(crossref, "subjects", PyList(<<>>))
    IN  CASE TypeOf(s) = "list" -> \E e \in Range(Payload(s)) : TypeOf(e) # "str"
          [] TypeOf(s) = "NoneType" -> TRUE
          [] TypeOf(s) = "bool" -> TRUE

\* ", ".join(crossref.get("subjects", [])) when it does not raise
Subjects(crossref) ==
    LET s == DictGet(crossref, "subjects", PyList(<<>>))
    IN  PyStr(JoinStrings(", ", [i \in 1..Len(Payload(s)) |-> Payload(Payload(s)[i])]))

\* the exception the dict literal raises, in its evaluation order, or "none"
RowError(crossref, openalex) ==
    IF GetRaises(crossref) THEN "AttributeError"
    ELSE IF Truthy(crossref) /\ SubjectsRaises(crossref) THEN "TypeError"
    ELSE IF GetRaises(openalex) THEN "AttributeError"
    ELSE "none"

MakeRow(issn, crossref, openalex, today) ==
    [issn |-> PyStr(issn),
     journal_title |->
        IF Truthy(crossref) THEN DictGet(crossref, "title", None) ELSE None,
     publisher |->
        IF Truthy(crossref) THEN DictGet(crossref, "publisher", None) ELSE None,
     subjects |-> IF Truthy(crossref) THEN Subjects(crossref) ELSE None,
     country |->
        IF Truthy(openalex) THEN DictGet(openalex, "country_code", None) ELSE None,
     open_access |->
        IF Truthy(openalex) THEN DictGet(openalex, "is_oa", None) ELSE None,
     doi_prefix |->
        IF Truthy(crossref) THEN DictGet(crossref, "prefix", None) ELSE None,
     source |-> PyStr("crossref+openalex"),
     fetch_date |-> PyDate(today)]

\* the tuple appended to rows_to_insert: the row and its record_hash
FactRow(row) == [row |-> row, record_hash |-> generate_hash(row)]


\* all sequences over S of length at most n
SeqUpTo(S, n) == UNION {[1..k -> S] : k \in 0..n}

\* a worker that has not been invoked yet
IdleRun ==
    [pc |-> "idle", issns |-> <<>>, today |-> 0, batches |-> <<>>,
     b |-> 0, i |-> 0, rows_to_insert |-> <<>>, error |-> "none",
     sleeps |-> 0, inserts |-> 0, fetched |-> <<>>,
     fact0 |-> <<>>, committed |-> <<>>,
     prev |-> [pc |-> "none", error |-> "none", issns |-> <<>>, today |-> 0,
               fact0 |-> <<>>, fact_end |-> <<>>]]

\* the pipeline has not run; chunk_list and generate_hash are not in use
InitPipeline(lists, crossrefs, openalexes) ==
    /\ master \in lists
    /\ upstream \in [ISSNS -> [crossref : crossrefs, openalex : openalexes]]
    /\ clock = 1
    /\ fact = <<>>
    /\ pending = [w \in Workers |-> <<>>]
    /\ run = [w \in Workers |-> IdleRun]
    /\ runs = 0
    /\ changes = 0

NoChunk == arg_lst = <<>> /\ arg_size = 1 /\ chunks = [called |-> FALSE, batches |-> <<>>]
NoHash == rowA = None /\ rowB = None /\ hashA = "" /\ hashB = ""

(***************************************************************************)
(* What the two services may answer.                                       *)
(***************************************************************************)
CrossrefMessage(title) ==
    PyDict(<< <<"title", PyStr(title)>>,
              <<"publisher", PyStr("Springer Nature")>>,
              <<"subjects", PyList(<<PyStr("Science")>>)>>,
              <<"prefix", PyStr("10.1038")>> >>)

CrossrefOk(message) ==
    Http(200, PyDict(<< <<"status", PyStr("ok")>>, <<"message", message>> >>))

OpenalexSource ==
    PyDict(<< <<"country_code", PyStr("GB")>>, <<"is_oa", PyBool(FALSE)>> >>)

OpenalexOk(results) == Http(200, PyDict(<< <<"results", results>> >>))

\* a journal whose "subjects" is null
NullSubjects == PyDict(<< <<"title", PyStr("Nature")>>, <<"subjects", None>> >>)

\* a journal whose "subjects" holds objects, as {"ASJC": ..., "name": ...}
ObjectSubjects ==
    PyDict(<< <<"title", PyStr("Nature")>>,
              <<"subjects", PyList(<<PyDict(<< <<"name", PyStr("Science")>> >>)>>)>> >>)

\* the answers of the pipeline runs: a failure, a journal, the journal
\* retitled, and a body with a null "subjects"
CrossrefSome ==
    {Raised, CrossrefOk(CrossrefMessage("Nature")),
     CrossrefOk(CrossrefMessage("Nature (London)")), CrossrefOk(NullSubjects)}

OpenalexSome == {Raised, OpenalexOk(PyList(<<OpenalexSource>>))}

\* every kind of outcome of a lookup: timeout, non-200, undecodable body,
\* missing key, well-formed body, and bodies of an unexpected shape
CrossrefAny ==
    {Raised, Http(404, NotJson), Http(200, NotJson),
     Http(200, PyDict(<< <<"status", PyStr("ok")>> >>)),
     CrossrefOk(CrossrefMessage("Nature")),
     CrossrefOk(PyDict(<< <<"title", PyStr("Nature")>> >>)),
     CrossrefOk(PyDict(<<>>)),
     CrossrefOk(NullSubjects),
     CrossrefOk(ObjectSubjects),
     CrossrefOk(PyList(<<PyStr("Nature")>>))}

OpenalexAny ==
    {Raised, Http(500, NotJson), Http(200, NotJson),
     Http(200, PyDict(<<>>)),
     OpenalexOk(PyList(<<>>)),
     OpenalexOk(PyList(<<OpenalexSource>>)),
     OpenalexOk(PyList(<<PyDict(<<>>)>>)),
     OpenalexOk(PyList(<<PyStr("S137773608")>>))}

(***************************************************************************)
(* The store.                                                              *)
(***************************************************************************)
\* load_issns: SELECT issn FROM issn_master
load_issns == master

\* Faulty variant of Matches: the lookup never finds a row.
Matches_never(rows, issn, record_hash) == FALSE

\* SELECT 1 FROM issn_metadata_fact WHERE issn = %s AND record_hash = %s
\* LIMIT 1 finds a row among `rows`
Matches(rows, issn, record_hash) ==
    \E f \in Range(rows) :
        f.row.issn = PyStr(issn) /\ f.record_hash = record_hash

\* record_exists on worker w's cursor, which sees the committed rows and the
\* rows its own connection has inserted
record_exists(w, issn, record_hash) ==
    Matches(fact \o pending[w], issn, record_hash)

\* conn.commit(): the connection's uncommitted rows become table rows
Commit(w, rows) ==
    /\ fact' = fact \o rows
    /\ pending' = [pending EXCEPT ![w] = <<>>]

\* the connection's uncommitted rows are discarded
Rollback(w) ==
    /\ fact' = fact
    /\ pending' = [pending EXCEPT ![w] = <<>>]

\* Faulty variant of ConnExit: the block commits however it is left.
ConnExit_commits(w, rows, raised) == Commit(w, rows)

\* leaving `with get_db() as conn`: commit, or rollback when the block raised
ConnExit(w, rows, raised) ==
    IF raised THEN Rollback(w) ELSE Commit(w, rows)

(***************************************************************************)
(* run_pipeline, one action per step of worker w.                          *)
(***************************************************************************)
\* what a finished (or never started) invocation leaves behind for the next
Summary(r) ==
    [pc |-> r.pc, error |-> r.error, issns |-> r.issns, today |-> r.today,
     fact0 |-> r.fact0, fact_end |-> fact]

\* the entry point: load the identifiers, take the date, cut the batches,
\* open the connection and enter the loop; at most n invocations
Start(w, n) ==
    /\ run[w].pc \in {"idle", "done", "failed"}
    /\ runs < n
    /\ runs' = runs + 1
    /\ LET issns == load_issns
           batches == chunk_list(issns, BATCH_SIZE)
       IN  run' = [run EXCEPT ![w] =
                [pc |-> IF batches = <<>> THEN "exit" ELSE "fetch",
                 issns |-> issns, today |-> clock, batches |-> batches,
                 b |-> IF batches = <<>> THEN 0 ELSE 1, i |-> 1,
                 rows_to_insert |-> <<>>, error |-> "none",
                 sleeps |-> 0, inserts |-> 0, fetched |-> <<>>,
                 fact0 |-> fact, committed |-> <<>>,
                 prev |-> Summary(run[w])]]
    /\ UNCHANGED <<master, upstream, clock, fact, pending, changes>>
    /\ UNCHANGED <<chunkVars, hashVars>>

\* one identifier of the batch: both lookups, the row, its fingerprint, and
\* the row collected unless record_exists finds it
ProcessIssn(w) ==
    /\ run[w].pc = "fetch"
    /\ LET r == run[w]
           issn == r.batches[r.b][r.i]
           crossref == fetch_crossref(upstream[issn].crossref)
           openalex == fetch_openalex(upstream[issn].openalex)
           calls == r.fetched \o << <<"crossref", issn>>, <<"openalex", issn>> >>
           err == RowError(crossref, openalex)
       IN  \/ /\ err = "none"
              /\ LET row == MakeRow(issn, crossref, openalex, r.today)
                     record_hash == generate_hash(row)
                     rows == IF record_exists(w, issn, record_hash)
                             THEN r.rows_to_insert
                             ELSE Append(r.rows_to_insert, FactRow(row))
                 IN  run' = [run EXCEPT ![w] =
                        [r EXCEPT !.fetched = calls,
                                  !.rows_to_insert = rows,
                                  !.i = r.i + 1,
                                  !.pc = IF r.i < Len(r.batches[r.b]) THEN "fetch"
                                         ELSE IF rows # <<>> THEN "insert"
                                         ELSE "sleep"]]
              /\ UNCHANGED <<fact, pending>>
           \/ /\ err # "none"
              /\ run' = [run EXCEPT ![w] =
                    [r EXCEPT !.fetched = calls, !.error = err, !.pc = "failed"]]
              /\ ConnExit(w, pending[w], TRUE)
    /\ UNCHANGED <<master, upstream, clock, runs, changes>>
    /\ UNCHANGED <<chunkVars, hashVars>>

\* cur.executemany(INSERT ...): every row inserted, or an error at row j
\* that leaves the block with the rows before it inserted
ExecuteMany(w) ==
    /\ run[w].pc = "insert"
    /\ LET r == run[w]
       IN  \/ /\ pending' = [pending EXCEPT ![w] = @ \o r.rows_to_insert]
              /\ fact' = fact
              /\ run' = [run EXCEPT ![w] =
                    [r EXCEPT !.inserts = r.inserts + 1, !.pc = "commit"]]
           \/ \E j \in 1..Len(r.rows_to_insert) :
                /\ ConnExit(w, pending[w] \o SubSeq(r.rows_to_insert, 1, j - 1), TRUE)
                /\ run' = [run EXCEPT ![w] =
                      [r EXCEPT !.inserts = r.inserts + 1,
                                !.error = "InsertError", !.pc = "failed"]]
    /\ UNCHANGED <<master, upstream, clock, runs, changes>>
    /\ UNCHANGED <<chunkVars, hashVars>>

\* conn.commit() after the insert, or an error in it
CommitBatch(w) ==
    /\ run[w].pc = "commit"
    /\ LET r == run[w]
       IN  \/ /\ Commit(w, pending[w])
              /\ run' = [run EXCEPT ![w] =
                    [r EXCEPT !.committed = @ \o pending[w], !.pc = "sleep"]]
           \/ /\ ConnExit(w, pending[w], TRUE)
              /\ run' = [run EXCEPT ![w] =
                    [r EXCEPT !.error = "InsertError", !.pc = "failed"]]
    /\ UNCHANGED <<master, upstream, clock, runs, changes>>
    /\ UNCHANGED <<chunkVars, hashVars>>

\* time.sleep(SLEEP_SECONDS) at the end of the loop body, then the next
\* batch or the end of the loop
Sleep(w) ==
    /\ run[w].pc = "sleep"
    /\ LET r == run[w]
       IN  run' = [run EXCEPT ![w] =
              IF r.b < Len(r.batches)
              THEN [r EXCEPT !.sleeps = r.sleeps + 1, !.b = r.b + 1, !.i = 1,
                             !.rows_to_insert = <<>>, !.inserts = 0,
                             !.pc = "fetch"]
              ELSE [r EXCEPT !.sleeps = r.sleeps + 1, !.pc = "exit"]]
    /\ UNCHANGED <<master, upstream, clock, fact, pending, runs, changes>>
    /\ UNCHANGED <<chunkVars, hashVars>>

\* the loop is over: the with block is left and the run completes
Exit(w) ==
    /\ run[w].pc = "exit"
    /\ ConnExit(w, pending[w], FALSE)
    /\ run' = [run EXCEPT ![w] = [@ EXCEPT !.pc = "done"]]
    /\ UNCHANGED <<master, upstream, clock, runs, changes>>
    /\ UNCHANGED <<chunkVars, hashVars>>

Pipeline(w, n) ==
    \/ Start(w, n)
    \/ ProcessIssn(w)
    \/ ExecuteMany(w)
    \/ CommitBatch(w)
    \/ Sleep(w)
    \/ Exit(w)

(***************************************************************************)
(* The environment: the calendar and the two services.                     *)
(***************************************************************************)
\* some invocation is under way, or one of the n can still be started
Active(n) ==
    \/ runs < n
    \/ \E w \in Workers : run[w].pc \notin {"idle", "done", "failed"}

\* midnight passes
Tick(n) ==
    /\ Active(n)
    /\ clock < MaxDay
    /\ clock' = clock + 1
    /\ UNCHANGED <<master, upstream, fact, pending, run, runs, changes>>
    /\ UNCHANGED <<chunkVars, hashVars>>

\* a service starts to answer differently for one identifier
ChangeUpstream(crossrefs, openalexes) ==
    /\ Active(MaxRuns)
    /\ changes < MaxChanges
    /\ changes' = changes + 1
    /\ \E issn \in ISSNS :
         \/ \E c \in crossrefs \ {upstream[issn].crossref} :
              upstream' = [upstream EXCEPT ![issn].crossref = c]
         \/ \E o \in openalexes \ {upstream[issn].openalex} :
              upstream' = [upstream EXCEPT ![issn].openalex = o]
    /\ UNCHANGED <<master, clock, fact, pending, run, runs>>
    /\ UNCHANGED <<chunkVars, hashVars>>

(***************************************************************************)
(* Spec: one worker, invoked again and again, as the scheduler does.       *)
(***************************************************************************)
MasterLists == SeqUpTo(ISSNS, MaxLen)

Init ==
    /\ InitPipeline(MasterLists, CrossrefSome, OpenalexSome)
    /\ NoChunk
    /\ NoHash

Next ==
    \/ Pipeline(1, MaxRuns)
    \/ Tick(MaxRuns)
    \/ ChangeUpstream(CrossrefSome, OpenalexSome)

Spec == Init /\ [][Next]_vars

(***************************************************************************)
(* SpecRerun: the pipeline run twice by one worker while both services     *)
(* keep their answers; the second run may fall on the same day or a later  *)
(* one.                                                                    *)
(***************************************************************************)
NextRerun ==
    \/ Pipeline(1, 2)
    \/ Tick(2)

SpecRerun == Init /\ [][NextRerun]_vars

(***************************************************************************)
(* SpecFetch: one run, with every kind of answer of the two services.      *)
(***************************************************************************)
InitFetch ==
    /\ InitPipeline(SeqUpTo(ISSNS, 2), CrossrefAny, OpenalexAny)
    /\ NoChunk
    /\ NoHash

NextFetch == Pipeline(1, 1)

SpecFetch == InitFetch /\ [][NextFetch]_vars

(***************************************************************************)
(* SpecPar: two workers run the pipeline against the same store, each on   *)
(* its own connection.  A statement sees the rows committed before it and  *)
(* the rows of its own transaction (READ COMMITTED, the default).          *)
(***************************************************************************)
InitPar ==
    /\ InitPipeline(SeqUpTo(ISSNS, 2), {CrossrefOk(CrossrefMessage("Nature"))},
                    {Raised, OpenalexOk(PyList(<<OpenalexSource>>))})
    /\ NoChunk
    /\ NoHash

NextPar == \E w \in Workers : Pipeline(w, 2)

SpecPar == InitPar /\ [][NextPar]_vars

(***************************************************************************)
(* SpecChunk: chunk_list applied to a list and a size.                     *)
(***************************************************************************)
InitChunk ==
    /\ InitPipeline({<<>>}, {Raised}, {Raised})
    /\ arg_lst \in SeqUpTo(ISSNS, MaxLen)
    /\ arg_size \in 1..MaxSize
    /\ chunks = [called |-> FALSE, batches |-> <<>>]
    /\ NoHash

Chunk ==
    /\ ~chunks.called
    /\ chunks' = [called |-> TRUE, batches |-> chunk_list(arg_lst, arg_size)]
    /\ UNCHANGED <<arg_lst, arg_size>>
    /\ UNCHANGED <<pipelineVars, hashVars>>

SpecChunk == InitChunk /\ [][Chunk]_vars

(***************************************************************************)
(* SpecHash: generate_hash applied to two rows.                            *)
(***************************************************************************)
HashTitles ==
    {None, PyStr("None"), PyStr("Nature"), PyStr("Nature|Springer")}

HashPublishers ==
    {None, PyStr("Springer"), PyStr("Nature"), PyStr("Springer|Nature")}

HashFlags == {None, PyBool(TRUE), PyBool(FALSE)}

HashRows ==
    {[issn |-> PyStr("0028-0836"), journal_title |-> t, publisher |-> p,
      subjects |-> PyStr("Science"), country |-> PyStr("GB"),
      open_access |-> o, doi_prefix |-> None,
      source |-> PyStr("crossref+openalex"), fetch_date |-> PyDate(1)] :
        t \in HashTitles, p \in HashPublishers, o \in HashFlags}

InitHash ==
    /\ InitPipeline({<<>>}, {Raised}, {Raised})
    /\ NoChunk
    /\ rowA \in HashRows
    /\ rowB \in HashRows
    /\ hashA = ""
    /\ hashB = ""

Hash ==
    /\ hashA = ""
    /\ hashA' = generate_hash(rowA)
    /\ hashB' = generate_hash(rowB)
    /\ UNCHANGED <<rowA, rowB>>
    /\ UNCHANGED <<pipelineVars, chunkVars>>

SpecHash == InitHash /\ [][Hash]_vars

(***************************************************************************)
(* Definitions the properties use.                                         *)
(***************************************************************************)
\* no two rows of the table carry the same (identifier, fingerprint) pair
NoDuplicatePair ==
    \A i, j \in 1..Len(fact) :
        i < j => ~(/\ fact[i].row.issn = fact[j].row.issn
                   /\ fact[i].record_hash = fact[j].record_hash)

\* the merged content of a row: everything but identifier, source and date
Content(row) ==
    <<row.journal_title, row.publisher, row.subjects, row.country,
      row.open_access, row.doi_prefix>>

\* rows i < j are consecutive snapshots of one identifier
Consecutive(i, j) ==
    /\ i < j
    /\ fact[i].row.issn = fact[j].row.issn
    /\ \A k \in (i + 1)..(j - 1) : fact[k].row.issn # fact[i].row.issn

\* the lookups a run makes for the identifiers `issns`, in order
Calls(issns) ==
    [k \in 1..(2 * Len(issns)) |->
        IF k % 2 = 1 THEN <<"crossref", issns[(k + 1) \div 2]>>
        ELSE <<"openalex", issns[k \div 2]>>]

RECURSIVE Flatten(_)
\* the concatenation of a sequence of sequences
Flatten(ss) == IF ss = <<>> THEN <<>> ELSE Head(ss) \o Flatten(Tail(ss))

RECURSIVE Collected(_, _, _)
\* rows_to_insert after a whole batch, against the rows `table`, on day
\* `today`, with the answers the services give now
Collected(table, batch, today) ==
    IF batch = <<>> THEN <<>>
    ELSE LET issn == batch[Len(batch)]
             before == Collected(table, SubSeq(batch, 1, Len(batch) - 1), today)
             row == MakeRow(issn, fetch_crossref(upstream[issn].crossref),
                            fetch_openalex(upstream[issn].openalex), today)
         IN  IF Matches(table, issn, generate_hash(row)) THEN before
             ELSE Append(before, FactRow(row))

RECURSIVE AfterBatches(_, _, _)
\* the table after the batches have each been processed and committed
AfterBatches(table, batches, today) ==
    IF batches = <<>> THEN table
    ELSE AfterBatches(table \o Collected(table, Head(batches), today),
                      Tail(batches), today)

\* the table an uninterrupted run over `issns` leaves, started on `table`
Uninterrupted(table, issns, today) ==
    AfterBatches(table, chunk_list(issns, BATCH_SIZE), today)

\* the rows a run's predecessor committed
CommittedBefore(r) ==
    SubSeq(r.prev.fact_end, Len(r.prev.fact0) + 1, Len(r.prev.fact_end))

(***************************************************************************)
(* C1.  The fact table never holds two rows with the same (identifier,     *)
(* fingerprint) pair, whatever the master list holds (an identifier listed *)
(* twice included) and however many runs there were.  Stated as claimed;   *)
(* the code collects both rows of an identifier listed twice in one batch. *)
(***************************************************************************)
C1_NeverSamePairTwice == NoDuplicatePair

C3_RowOnlyWhenContentChanged ==
    \A i, j \in 1..Len(fact) :
        (Consecutive(i, j) /\ fact[i].row.fetch_date # fact[j].row.fetch_date)
            => Content(fact[i].row) # Content(fact[j].row)

(***************************************************************************)
(* C4.  Fingerprint sensitivity: two rows that differ in some field have   *)
(* different fingerprints.  Stated as claimed; str() maps None and "None"  *)
(* to the same text, and a "|" inside a value shifts the field boundary.   *)
(***************************************************************************)
C4_DifferentRowsDifferentHash ==
    (hashA # "" /\ rowA # rowB) => hashA # hashB

(***************************************************************************)
(* C5.  A fetch failure never aborts the run: whatever the two services    *)
(* answer, a run fails only at the insert, and a completed run has made    *)
(* both lookups for every identifier, in order.  Stated as claimed; a body *)
(* of an unexpected shape raises outside the fetchers' try blocks.         *)
(***************************************************************************)
C5_FetchFailureNeverAborts ==
    LET r == run[1]
    IN  /\ r.pc = "failed" => r.error = "InsertError"
        /\ r.pc = "done" => r.fetched = Calls(r.issns)

(***************************************************************************)
(* C6.  Batch completeness of chunk_list: ceil(N/B) batches, each but the  *)
(* last of B elements, the last of 1..B, and the batches concatenated in   *)
(* order are the list (so every position is in exactly one batch).         *)
(***************************************************************************)
C6_BatchCompleteness ==
    chunks.called =>
        LET c == chunks.batches
            N == Len(arg_lst)
            K == Len(c)
        IN  /\ K * arg_size >= N
            /\ N > 0 => (K - 1) * arg_size < N
            /\ N = 0 => K = 0
            /\ \A k \in 1..(K - 1) : Len(c[k]) = arg_size
            /\ K > 0 => Len(c[K]) \in 1..arg_size
            /\ Flatten(c) = arg_lst

C6_Witness ==
    /\ chunks.called
    /\ Len(arg_lst) = 3
    /\ arg_size = 2
    /\ Len(chunks.batches) = 2
    /\ Len(chunks.batches[2]) = 1

(***************************************************************************)
(* C7.  When the insert of batch k fails the run halts there: the table    *)
(* holds what it held at the start and the rows of the batches committed   *)
(* before, no row collected for batch k is in it, nothing is left          *)
(* uncommitted, and no identifier of a later batch was fetched.            *)
(***************************************************************************)
C7_InsertFailureHalts ==
    LET r == run[1]
    IN  (r.pc = "failed" /\ r.error = "InsertError") =>
            /\ fact = r.fact0 \o r.committed
            /\ pending[1] = <<>>
            /\ r.rows_to_insert # <<>>
            /\ \A k \in 1..Len(r.rows_to_insert) :
                    r.rows_to_insert[k] \notin Range(fact)
            /\ r.fetched = Calls(Flatten(SubSeq(r.batches, 1, r.b)))

C7_Witness ==
    LET r == run[1]
    IN  /\ r.pc = "failed"
        /\ r.error = "InsertError"
        /\ r.b = 2
        /\ Len(r.rows_to_insert) = 1
        /\ Len(r.committed) = 2
        /\ fact = r.committed

(***************************************************************************)
(* C8.  Re-running after a failed insert is safe: when a run completes on  *)
(* the day its predecessor failed at an insert, with the services          *)
(* answering as before, the table is the one a single uninterrupted run    *)
(* would have left, and no row the failed run committed was inserted       *)
(* again.                                                                  *)
(***************************************************************************)
C8_RerunAfterFailure ==
    LET r == run[1]
    IN  (/\ r.pc = "done"
         /\ r.prev.pc = "failed"
         /\ r.prev.error = "InsertError"
         /\ r.today = r.prev.today) =>
            /\ fact = Uninterrupted(r.prev.fact0, r.issns, r.today)
            /\ Range(CommittedBefore(r)) \cap Range(r.committed) = {}

C8_Witness ==
    LET r == run[1]
    IN  /\ r.pc = "done"
        /\ r.prev.pc = "failed"
        /\ r.prev.error = "InsertError"
        /\ r.today = r.prev.today
        /\ Len(CommittedBefore(r)) = 2
        /\ Len(r.committed) = 1

(***************************************************************************)
(* C9.  Under two interleaved runs no (identifier, fingerprint) pair is    *)
(* persisted twice, even with a master list without repeated identifiers.  *)
(* Stated as claimed; both runs can pass the existence check before either *)
(* commits.                                                                *)
(***************************************************************************)
C9_NoDuplicateUnderParallelRuns ==
    (\A i, j \in 1..Len(master) : i # j => master[i] # master[j])
        => NoDuplicatePair

(***************************************************************************)
(* C10.  A batch makes at most one bulk insert, the insert is committed    *)
(* before the pacing sleep, and a run over K batches sleeps K - 1 times    *)
(* (0 times for no batch).  Stated as claimed; the sleep closes the loop   *)
(* body, so the last batch is followed by one too.                         *)
(***************************************************************************)
C10_SleepsOnlyBetweenBatches ==
    LET r == run[1]
    IN  /\ r.inserts <= 1
        /\ r.pc = "sleep" => pending[1] = <<>>
        /\ r.pc = "done" =>
              r.sleeps = IF Len(r.batches) = 0 THEN 0 ELSE Len(r.batches) - 1

=============================================================================
